---- MODULE Spec2Model ----
(***************************************************************************)
(* Model of the pipeline engine of src/pipeline.py: Task, TaskResult and   *)
(* Pipeline (add_task, add_hook, validate, execute, _execute_hooks).       *)
(*                                                                         *)
(* One Pipeline object is modelled.  Task objects are numbered; object 0   *)
(* is a Task that is never added to the pipeline.  execute() is split at   *)
(* the points where it hands control to caller code (a task's execute),    *)
(* so that each position of the handler is a state:                        *)
(*   idle -> loop -> (exec -> loop)* -> finally -> idle                    *)
(* The variables log, ctx0, res0 and ret are history variables: they       *)
(* record what the current (or last) execute() call did and how it ended.  *)
(* TaskResult.start_time, end_time and metadata are not modelled.          *)
(*                                                                         *)
(* PipelineBuilder is modelled as well: the Pipeline object it holds in    *)
(* _pipeline is the modelled pipeline (tasks, hooks, context, results),    *)
(* and the structure of a pipeline that build() returned and               *)
(* create_pipeline() then replaced is kept in det.                         *)
(***************************************************************************)
EXTENDS Integers, Sequences, FiniteSets, TLC

\* Bounds of the exploration.
MaxTasks == 3
MaxCalls == 2
\* execute() is explored again only while the loop iterations of all the
\* calls together stay within this number.
MaxVisits == 6
\* Tasks made, pipelines created, hooks registered and execute() calls
\* explored from a new PipelineBuilder, all together.
MaxWork == 6

VARIABLES
    tasks,      \* Pipeline.tasks: sequence of Task objects
    name,       \* Task.name of each object
    deps,       \* Task._dependencies of each object (as a set of objects)
    hooks,      \* Pipeline._hooks: event -> sequence of callables
    status,     \* Task.status of each object
    result,     \* Task.result of each object: <<>> (None) or <<TaskResult>>
    results,    \* Pipeline.results: name -> TaskResult
    context,    \* Pipeline.context: key -> value
    pc,         \* position of the caller inside execute()
    i,          \* position of the for loop of execute() (1-based)
    exc,        \* an exception is propagating out of the try block
    calls,      \* number of execute() calls started
    log,        \* events of the current/last execute() call, in order
    ctx0,       \* context when the current/last execute() call began
    res0,       \* results when the current/last execute() call began
    ret,        \* how the last execute() call ended: none, returned, raised
    vcall,      \* the last validate() call, <<>> once execute() is called again
    blocked,    \* tasks that have had a dependency with status FAILED or SKIPPED
    held,       \* PipelineBuilder._pipeline is a Pipeline (FALSE: None)
    kind,       \* class of each Task object
    returned,   \* the pipeline build() last returned: none, held, detached
    det,        \* <<tasks, hooks>> of the returned pipeline once detached, else <<>>
    bcall,      \* the last builder call: <<>> or <<[op, raised, task]>>
    creates     \* number of create_pipeline() calls

vars == <<tasks, name, deps, hooks, status, result, results, context,
          pc, i, exc, calls, log, ctx0, res0, ret, vcall, blocked,
          held, kind, returned, det, bcall, creates>>

\* class TaskStatus
PENDING == "pending"
RUNNING == "running"
SUCCESS == "success"
FAILED  == "failed"
SKIPPED == "skipped"
TaskStatus == {PENDING, RUNNING, SUCCESS, FAILED, SKIPPED}

\* The four keys of Pipeline._hooks.
Events == {"before_pipeline", "after_pipeline", "before_task", "after_task"}

\* An empty dict (also stands for output=None: both are falsy at line 374).
Empty == [k \in {} |-> 0]

\* dict.update(): shallow merge, the right operand's keys win.
MergeKeepsOld(c, o) ==
    [k \in DOMAIN c \cup DOMAIN o |-> IF k \in DOMAIN c THEN c[k] ELSE o[k]]

Merge(c, o) ==
    [k \in DOMAIN c \cup DOMAIN o |-> IF k \in DOMAIN o THEN o[k] ELSE c[k]]

\* self.results[task.name] = r
PutDropsOthers(m, nm, r) == [k \in {nm} |-> r]

PutKeepsFirst(m, nm, r) ==
    [k \in DOMAIN m \cup {nm} |-> IF k \in DOMAIN m THEN m[k] ELSE r]

Put(m, nm, r) ==
    [k \in DOMAIN m \cup {nm} |-> IF k = nm THEN r ELSE m[k]]

\* TaskResult(status, output, error)
TaskResult(st, out, err) == [status |-> st, output |-> out, error |-> err]

\* Task.can_execute
CanExecuteAny(t) ==
    deps[t] = {} \/ \E d \in deps[t] : status[d] = SUCCESS

CanExecuteExceptFailed(t) ==
    \A d \in deps[t] : status[d] # FAILED

CanExecute(t) ==
    \A d \in deps[t] : status[d] = SUCCESS

\* The result execute() records for a task whose dependencies are unmet.
SkippedResultAsFailed == TaskResult(FAILED, Empty, "Dependencies not satisfied")

SkippedResult == TaskResult(SKIPPED, Empty, "Dependencies not satisfied")

\* if result.status == TaskStatus.SUCCESS and result.output
MergesAnyStatus(r) == r.output # Empty

MergesOutput(r) == r.status = SUCCESS /\ r.output # Empty

\* if result.status == TaskStatus.FAILED: break
NeverStops(r) == FALSE

StopsPipeline(r) == r.status = FAILED

(***************************************************************************)
(* Caller code.  A hook is a callable: it returns ("ok"), raises           *)
(* ("raises"), or writes the pipeline's context and returns ("writes", as  *)
(* set_execution_context of src/examples.py does).  A task's execute       *)
(* returns a TaskResult or raises; it may write the context it is given    *)
(* before returning FAILED (as RetryableTask of src/examples.py does).      *)
(***************************************************************************)
\* What a "writes" hook stores into pipeline.context.
HookWrite == [k \in {"h"} |-> 1]

\* What a task's execute stores into the context it is given.
TaskWrite(t) == [k \in {"r"} |-> t]

\* The non-empty output mapping of task object t.
Output(t) ==
    IF t = 1 THEN [k \in {"x", "y"} |-> 1]
    ELSE IF t % 2 = 0 THEN [k \in {"x"} |-> t]
    ELSE [k \in {"y"} |-> t]

\* The ways a call of the execute of a task written by the caller can return.
CustomReturns(t) ==
    {[res |-> TaskResult(SUCCESS, o, ""), writes |-> FALSE] : o \in {Empty, Output(t)}}
    \cup {[res |-> TaskResult(SKIPPED, Output(t), ""), writes |-> FALSE]}
    \cup {[res |-> TaskResult(FAILED, Empty, "err"), writes |-> w] : w \in BOOLEAN}
    \cup {[res |-> TaskResult(FAILED, Output(t), "err"), writes |-> FALSE]}

\* The classes of the tasks that PipelineBuilder makes itself.  Their execute
\* returns SUCCESS with a non-empty output, or catches every Exception and
\* returns FAILED with the error and no output.
BuiltinKinds == {"ExportDataTask", "UploadToADLSTask", "DatabricksJobTask"}

BuiltinReturns(t) ==
    {[res |-> TaskResult(SUCCESS, Output(t), ""), writes |-> FALSE],
     [res |-> TaskResult(FAILED, Empty, "err"), writes |-> FALSE]}

\* The ways a call of task t's execute can return.
Returns(t) ==
    IF kind[t] \in BuiltinKinds THEN BuiltinReturns(t) ELSE CustomReturns(t)

(***************************************************************************)
(* Pipeline._execute_hooks: every hook registered for the event is called  *)
(* in registration order; an exception of a hook is caught and logged.     *)
(* HookEvents is the list of calls made, HookContext the context after     *)
(* them.  p is the loop position the hooks are fired for (0: none).        *)
(***************************************************************************)
RECURSIVE CalledFrom(_, _)
\* Indices of the hooks of list hs that are called, from index j on.
CalledFrom(hs, j) ==
    IF j > Len(hs) THEN <<>> ELSE <<j>> \o CalledFrom(hs, j + 1)

RECURSIVE CalledUntilRaise(_, _)
CalledUntilRaise(hs, j) ==
    IF j > Len(hs) THEN <<>>
    ELSE IF hs[j] = "raises" THEN <<j>>
    ELSE <<j>> \o CalledUntilRaise(hs, j + 1)

HooksCalledUntilRaise(hs) == CalledUntilRaise(hs, 1)

HooksCalled(hs) == CalledFrom(hs, 1)

\* The events of one _execute_hooks(event, payload) call: the call itself
\* ("fire", with what the payload lets the hooks see) and each hook called.
HookEvents(event, p, seen) ==
    LET hs == hooks[event]
        called == HooksCalled(hs)
    IN <<[ev |-> "fire", event |-> event, pos |-> p, seen |-> seen]>>
       \o [n \in 1..Len(called) |->
             [ev |-> "hook", event |-> event, pos |-> p, hook |-> called[n],
              raised |-> hs[called[n]] = "raises",
              wrote |-> hs[called[n]] = "writes"]]

HookContext(event, c) ==
    LET hs == hooks[event]
        called == HooksCalled(hs)
    IN IF \E n \in 1..Len(called) : hs[called[n]] = "writes"
       THEN Merge(c, HookWrite) ELSE c

\* The state at the moment hooks are fired: the status of the task they are
\* fired for ("none" for the pipeline events), results and context.
Seen(st, rs, c) == [status |-> st, results |-> rs, context |-> c]

(***************************************************************************)
(* Initial states: a pipeline as add_task and add_hook leave it, before    *)
(* the first execute().  Task objects 1..n are in the pipeline in that     *)
(* order, object 0 is not.                                                 *)
(***************************************************************************)
\* Dependency sets tried for the task at position t of n.
DepChoices(t, n) ==
    {{}, {t - 1}, {(t % n) + 1}} \cup (IF t > 1 THEN {{0, t - 1}, 1..(t - 1)} ELSE {})

\* Name assignments tried: all names distinct, or one name for all tasks.
NameChoices(n) == {[t \in 1..n |-> t], [t \in 1..n |-> 1]}

\* Hook lists tried (the same list is registered for every event).
HookLists == {<<>>, <<"raises", "writes">>}

Init ==
    /\ \E n \in 0..MaxTasks :
        /\ tasks = [t \in 1..n |-> t]
        /\ name \in NameChoices(n)
        /\ \E d \in [1..n -> SUBSET (0..n)] :
              /\ \A t \in 1..n : d[t] \in DepChoices(t, n)
              /\ deps = [t \in 0..n |-> IF t = 0 THEN {} ELSE d[t]]
        /\ status = [t \in 0..n |-> PENDING]
        /\ result = [t \in 0..n |-> <<>>]
    /\ \E hs \in HookLists : hooks = [e \in Events |-> hs]
    /\ results = Empty
    /\ context = Empty
    /\ pc = "idle"
    /\ i = 0
    /\ exc = FALSE
    /\ calls = 0
    /\ log = <<>>
    /\ ctx0 = Empty
    /\ res0 = Empty
    /\ ret = "none"
    /\ vcall = <<>>
    /\ blocked = {}
    /\ held = FALSE
    /\ kind = [t \in DOMAIN status |-> "Task"]
    /\ returned = "none"
    /\ det = <<>>
    /\ bcall = <<>>
    /\ creates = 0

config == <<tasks, name, deps, hooks>>

\* The state of the PipelineBuilder and of the objects it made.
builder == <<held, kind, returned, det, bcall, creates>>

\* The tasks that have a dependency with status FAILED or SKIPPED.
NowBlocked(dp, st) ==
    {t \in DOMAIN dp : \E d \in dp[t] : st[d] \in {FAILED, SKIPPED}}

(***************************************************************************)
(* Pipeline.execute                                                        *)
(***************************************************************************)
\* execute() is called: before_pipeline hooks fire, the try block is entered.
BeginPrefills ==
    /\ pc = "idle"
    /\ calls < MaxCalls
    /\ calls = 0 \/ (calls + 1) * Len(tasks) <= MaxVisits
    /\ calls' = calls + 1
    /\ ctx0' = context
    /\ res0' = results
    /\ log' = HookEvents("before_pipeline", 0, Seen("none", results, context))
    /\ context' = HookContext("before_pipeline", context)
    /\ results' = [k \in DOMAIN results \cup {name[tasks[p]] : p \in 1..Len(tasks)} |->
                     IF k \in DOMAIN results THEN results[k]
                     ELSE TaskResult(PENDING, Empty, "")]
    /\ pc' = "loop"
    /\ i' = 1
    /\ exc' = FALSE
    /\ ret' = "none"
    /\ vcall' = <<>>
    /\ UNCHANGED <<config, builder, blocked, status, result>>

BeginResets ==
    /\ pc = "idle"
    /\ calls < MaxCalls
    /\ calls = 0 \/ (calls + 1) * Len(tasks) <= MaxVisits
    /\ calls' = calls + 1
    /\ ctx0' = context
    /\ res0' = results
    /\ log' = HookEvents("before_pipeline", 0, Seen("none", Empty, Empty))
    /\ context' = HookContext("before_pipeline", Empty)
    /\ results' = Empty
    /\ pc' = "loop"
    /\ i' = 1
    /\ exc' = FALSE
    /\ ret' = "none"
    /\ vcall' = <<>>
    /\ UNCHANGED <<config, builder, blocked, status, result>>

Begin ==
    /\ pc = "idle"
    /\ calls < MaxCalls
    /\ calls = 0 \/ (calls + 1) * Len(tasks) <= MaxVisits
    /\ calls' = calls + 1
    /\ ctx0' = context
    /\ res0' = results
    /\ log' = HookEvents("before_pipeline", 0, Seen("none", results, context))
    /\ context' = HookContext("before_pipeline", context)
    /\ pc' = "loop"
    /\ i' = 1
    /\ exc' = FALSE
    /\ ret' = "none"
    /\ vcall' = <<>>
    /\ UNCHANGED <<config, builder, blocked, status, result, results>>

\* The loop reaches a task whose dependencies are not satisfied.
SkipHalts ==
    /\ pc = "loop"
    /\ i <= Len(tasks)
    /\ LET t == tasks[i] IN
        /\ ~CanExecute(t)
        /\ result' = [result EXCEPT ![t] = <<SkippedResult>>]
        /\ results' = Put(results, name[t], SkippedResult)
        /\ log' = Append(log, [ev |-> "skip", pos |-> i])
    /\ pc' = "finally"
    /\ UNCHANGED <<config, builder, blocked, status, context, i, exc, calls,
                   ctx0, res0, ret, vcall>>

SkipRetries ==
    /\ pc = "loop"
    /\ i <= Len(tasks)
    /\ LET t == tasks[i] IN
        /\ ~CanExecute(t)
        /\ result' = [result EXCEPT ![t] = <<SkippedResult>>]
        /\ results' = Put(results, name[t], SkippedResult)
        /\ log' = Append(log, [ev |-> "skip", pos |-> i])
    /\ i' = IF Len(log) < 2 * Len(tasks) THEN i ELSE i + 1
    /\ UNCHANGED <<config, builder, blocked, status, context, pc, exc, calls,
                   ctx0, res0, ret, vcall>>

SkipMarksSkipped ==
    /\ pc = "loop"
    /\ i <= Len(tasks)
    /\ LET t == tasks[i] IN
        /\ ~CanExecute(t)
        /\ status' = [status EXCEPT ![t] = SKIPPED]
        /\ result' = [result EXCEPT ![t] = <<SkippedResult>>]
        /\ results' = Put(results, name[t], SkippedResult)
        /\ log' = Append(log, [ev |-> "skip", pos |-> i])
    /\ i' = i + 1
    /\ UNCHANGED <<config, builder, blocked, context, pc, exc, calls,
                   ctx0, res0, ret, vcall>>

Skip ==
    /\ pc = "loop"
    /\ i <= Len(tasks)
    /\ LET t == tasks[i] IN
        /\ ~CanExecute(t)
        /\ result' = [result EXCEPT ![t] = <<SkippedResult>>]
        /\ results' = Put(results, name[t], SkippedResult)
        /\ log' = Append(log, [ev |-> "skip", pos |-> i])
    /\ i' = i + 1
    /\ UNCHANGED <<config, builder, blocked, status, context, pc, exc, calls,
                   ctx0, res0, ret, vcall>>

\* task.status = TaskStatus.RUNNING
MarkRunningForgotten(t) == status

MarkRunning(t) == [status EXCEPT ![t] = RUNNING]

\* The loop reaches a task that can execute: before_task hooks fire, the
\* task is marked RUNNING and its execute is called.
StartTaskMarksFirst ==
    /\ pc = "loop"
    /\ i <= Len(tasks)
    /\ LET t == tasks[i] IN
        /\ CanExecute(t)
        /\ log' = log \o HookEvents("before_task", i, Seen(RUNNING, results, context))
                      \o <<[ev |-> "call", pos |-> i]>>
        /\ context' = HookContext("before_task", context)
        /\ status' = MarkRunning(t)
    /\ pc' = "exec"
    /\ UNCHANGED <<config, builder, blocked, result, results, i, exc, calls,
                   ctx0, res0, ret, vcall>>

StartTask ==
    /\ pc = "loop"
    /\ i <= Len(tasks)
    /\ LET t == tasks[i] IN
        /\ CanExecute(t)
        /\ log' = log \o HookEvents("before_task", i, Seen(status[t], results, context))
                      \o <<[ev |-> "call", pos |-> i]>>
        /\ context' = HookContext("before_task", context)
        /\ status' = MarkRunning(t)
    /\ pc' = "exec"
    /\ UNCHANGED <<config, builder, blocked, result, results, i, exc, calls,
                   ctx0, res0, ret, vcall>>

\* The task's execute returns a TaskResult: it is recorded, its output is
\* merged on SUCCESS, after_task hooks fire, a FAILED result ends the loop.
TaskReturns ==
    /\ pc = "exec"
    /\ LET t == tasks[i] IN
       \E o \in Returns(t) :
         LET r == o.res
             written == IF o.writes THEN Merge(context, TaskWrite(t)) ELSE context
             merged == IF MergesOutput(r) THEN Merge(written, r.output) ELSE written
         IN
           /\ status' = [status EXCEPT ![t] = r.status]
           /\ result' = [result EXCEPT ![t] = <<r>>]
           /\ results' = Put(results, name[t], r)
           /\ context' = HookContext("after_task", merged)
           /\ log' = log \o <<[ev |-> "return", pos |-> i, res |-> r,
                               writes |-> o.writes]>>
                         \o HookEvents("after_task", i,
                                       Seen(r.status, Put(results, name[t], r), merged))
           /\ IF StopsPipeline(r)
                 THEN pc' = "finally" /\ i' = i
                 ELSE pc' = "loop" /\ i' = i + 1
    /\ blocked' = blocked \cup NowBlocked(deps, status')
    /\ UNCHANGED <<config, builder, exc, calls, ctx0, res0, ret, vcall>>

\* The task's execute raises: the exception leaves the try block.
TaskRaisesRecorded ==
    /\ pc = "exec"
    /\ kind[tasks[i]] \notin BuiltinKinds
    /\ LET t == tasks[i]
           r == TaskResult(FAILED, Empty, "err") IN
        /\ status' = [status EXCEPT ![t] = FAILED]
        /\ result' = [result EXCEPT ![t] = <<r>>]
        /\ results' = Put(results, name[t], r)
    /\ log' = Append(log, [ev |-> "raise", pos |-> i])
    /\ exc' = TRUE
    /\ pc' = "finally"
    /\ blocked' = blocked \cup NowBlocked(deps, status')
    /\ UNCHANGED <<config, builder, context, i, calls, ctx0, res0, ret,
                   vcall>>

TaskRaises ==
    /\ pc = "exec"
    /\ kind[tasks[i]] \notin BuiltinKinds
    /\ log' = Append(log, [ev |-> "raise", pos |-> i])
    /\ exc' = TRUE
    /\ pc' = "finally"
    /\ UNCHANGED <<config, builder, blocked, status, result, results, context,
                   i, calls, ctx0, res0, ret, vcall>>

\* The for loop has no task left.
LoopExit ==
    /\ pc = "loop"
    /\ i > Len(tasks)
    /\ pc' = "finally"
    /\ UNCHANGED <<config, builder, blocked, status, result, results, context,
                   i, exc, calls, log, ctx0, res0, ret, vcall>>

\* The finally block: after_pipeline hooks fire, then execute() returns
\* self.results or lets the exception propagate.
FinallyNoHooksOnRaise ==
    /\ pc = "finally"
    /\ log' = IF exc THEN log
              ELSE log \o HookEvents("after_pipeline", 0, Seen("none", results, context))
    /\ context' = IF exc THEN context ELSE HookContext("after_pipeline", context)
    /\ ret' = IF exc THEN "raised" ELSE "returned"
    /\ exc' = FALSE
    /\ pc' = "idle"
    /\ UNCHANGED <<config, builder, blocked, status, result, results, i,
                   calls, ctx0, res0, vcall>>

Finally ==
    /\ pc = "finally"
    /\ log' = log \o HookEvents("after_pipeline", 0, Seen("none", results, context))
    /\ context' = HookContext("after_pipeline", context)
    /\ ret' = IF exc THEN "raised" ELSE "returned"
    /\ exc' = FALSE
    /\ pc' = "idle"
    /\ UNCHANGED <<config, builder, blocked, status, result, results, i,
                   calls, ctx0, res0, vcall>>

(***************************************************************************)
(* Pipeline.validate: task.validate() is called on the tasks in insertion  *)
(* order until one returns false.  What each task's validate() would       *)
(* return is an input (it reads the metadata collaborator).  A second      *)
(* validate() in a row is not explored: it starts from the same state.     *)
(***************************************************************************)
\* Position of the first task whose validate() is false, 0 if there is none.
LastInvalid(valid) ==
    IF \A p \in 1..Len(tasks) : valid[p] THEN 0
    ELSE CHOOSE p \in 1..Len(tasks) :
            ~valid[p] /\ \A q \in (p + 1)..Len(tasks) : valid[q]

FirstInvalid(valid) ==
    IF \A p \in 1..Len(tasks) : valid[p] THEN 0
    ELSE CHOOSE p \in 1..Len(tasks) :
            ~valid[p] /\ \A q \in 1..(p - 1) : valid[q]

ValidateMarksInvalid ==
    /\ pc = "idle"
    /\ vcall = <<>>
    /\ \E valid \in [1..Len(tasks) -> BOOLEAN] :
          LET k == FirstInvalid(valid) IN
          /\ vcall' = << [valid |-> valid,
                          called |-> IF k = 0 THEN Len(tasks) ELSE k,
                          ret |-> k = 0] >>
          /\ status' = IF k = 0 THEN status
                        ELSE [status EXCEPT ![tasks[k]] = FAILED]
    /\ UNCHANGED <<config, builder, blocked, result, results, context, pc, i,
                   exc, calls, log, ctx0, res0, ret>>

Validate ==
    /\ pc = "idle"
    /\ vcall = <<>>
    /\ \E valid \in [1..Len(tasks) -> BOOLEAN] :
          LET k == FirstInvalid(valid) IN
          vcall' = << [valid |-> valid,
                       called |-> IF k = 0 THEN Len(tasks) ELSE k,
                       ret |-> k = 0] >>
    /\ UNCHANGED <<config, builder, blocked, status, result, results, context,
                   pc, i, exc, calls, log, ctx0, res0, ret>>

Next ==
    \/ Begin
    \/ Skip
    \/ StartTask
    \/ TaskReturns
    \/ TaskRaises
    \/ LoopExit
    \/ Finally

\* execute() calls only.
Spec == Init /\ [][Next]_vars

NextValidate ==
    \/ Next
    \/ Validate

\* execute() and validate() calls in any order.
SpecValidate == Init /\ [][NextValidate]_vars

\* execute() calls in which every hook and every task's execute called
\* comes back (by returning or raising) and the engine keeps running: a step
\* of execute() that can be taken is eventually taken.
SpecFair == Init /\ [][Next]_vars /\ WF_vars(Next)

(***************************************************************************)
(* PipelineBuilder.  Every step first checks `if not self._pipeline` and   *)
(* raises ValueError; otherwise it acts on the Pipeline the builder holds. *)
(* Task objects are made by the builder steps (by caller code for          *)
(* add_custom_task) and get the next free number; a task made by the       *)
(* builder is given a name of its own.  Builder steps are taken between    *)
(* execute() calls.                                                        *)
(***************************************************************************)
\* The fields of the current/last execute() call of the modelled pipeline.
run == <<pc, i, exc, calls, log, ctx0, res0, ret, vcall>>

\* if not self._pipeline
NoPipeline == ~held

\* The number of the next Task object.
NextObject == Cardinality(DOMAIN status)

\* The number of hooks registered.
HookCount == Len(hooks["before_pipeline"]) + Len(hooks["after_pipeline"])
             + Len(hooks["before_task"]) + Len(hooks["after_task"])

\* What has been done since the builder was made: tasks made, pipelines
\* created, hooks registered, execute() calls.
Work == (NextObject - 1) + creates + HookCount + calls

\* What a builder call did: its name, whether it raised, the task it added.
BuilderCall(op, raised, t) == <<[op |-> op, raised |-> raised, task |-> t]>>

\* raise ValueError("Pipeline not created. Call create_pipeline first.")
Raises(op) ==
    /\ bcall' = BuilderCall(op, TRUE, 0)
    /\ UNCHANGED <<config, status, result, results, context, run, blocked,
                   held, kind, returned, det, creates>>

\* Task.__init__ for object t of class k, then add_dependency for each of dp.
NewTask(t, k, dp) ==
    /\ name' = [x \in 1..t |-> IF x = t THEN t ELSE name[x]]
    /\ deps' = [x \in 0..t |-> IF x = t THEN dp ELSE deps[x]]
    /\ status' = [x \in 0..t |-> IF x = t THEN PENDING ELSE status[x]]
    /\ result' = [x \in 0..t |-> IF x = t THEN <<>> ELSE result[x]]
    /\ kind' = [x \in 0..t |-> IF x = t THEN k ELSE kind[x]]
    /\ blocked' = blocked \cup NowBlocked(deps', status')

\* [t for t in self._pipeline.tasks if isinstance(t, k)][-1], as a set: empty
\* when the pipeline has no task of class k.
FirstOfKind(k) ==
    LET ps == {p \in 1..Len(tasks) : kind[tasks[p]] = k} IN
    IF ps = {} THEN {} ELSE {tasks[CHOOSE p \in ps : \A q \in ps : p <= q]}

LastOfKind(k) ==
    LET ps == {p \in 1..Len(tasks) : kind[tasks[p]] = k} IN
    IF ps = {} THEN {} ELSE {tasks[CHOOSE p \in ps : \A q \in ps : q <= p]}

\* A new task of class k with dependencies dp is made and
\* self._pipeline.add_task(task) appends it.
AppendNew(op, k, dp) ==
    LET t == NextObject IN
    /\ t <= MaxTasks
    /\ Work < MaxWork
    /\ NewTask(t, k, dp)
    /\ tasks' = Append(tasks, t)
    /\ bcall' = BuilderCall(op, FALSE, t)
    /\ UNCHANGED <<hooks, results, context, run, held, returned, det, creates>>

\* PipelineBuilder.create_pipeline: self._pipeline = Pipeline(...).  The
\* pipeline build() had returned, if the builder still held it, lives on
\* outside the builder.
CreatePipelineKeepsTasks ==
    /\ pc = "idle"
    /\ Work < MaxWork
    /\ creates' = creates + 1
    /\ held' = TRUE
    /\ tasks' = tasks
    /\ hooks' = [e \in Events |-> <<>>]
    /\ context' = Empty
    /\ results' = Empty
    /\ det' = IF returned = "held"
                 THEN <<[tasks |-> tasks, hooks |-> hooks]>> ELSE det
    /\ returned' = IF returned = "held" THEN "detached" ELSE returned
    /\ bcall' = BuilderCall("create_pipeline", FALSE, 0)
    /\ i' = 0 /\ log' = <<>> /\ ctx0' = Empty /\ res0' = Empty
    /\ ret' = "none" /\ vcall' = <<>>
    /\ UNCHANGED <<name, deps, status, result, kind, blocked, pc, exc, calls>>

CreatePipeline ==
    /\ pc = "idle"
    /\ Work < MaxWork
    /\ creates' = creates + 1
    /\ held' = TRUE
    /\ tasks' = <<>>
    /\ hooks' = [e \in Events |-> <<>>]
    /\ context' = Empty
    /\ results' = Empty
    /\ det' = IF returned = "held"
                 THEN <<[tasks |-> tasks, hooks |-> hooks]>> ELSE det
    /\ returned' = IF returned = "held" THEN "detached" ELSE returned
    /\ bcall' = BuilderCall("create_pipeline", FALSE, 0)
    /\ i' = 0 /\ log' = <<>> /\ ctx0' = Empty /\ res0' = Empty
    /\ ret' = "none" /\ vcall' = <<>>
    /\ UNCHANGED <<name, deps, status, result, kind, blocked, pc, exc, calls>>

\* PipelineBuilder.add_export_task
AddExportTask ==
    /\ pc = "idle"
    /\ IF NoPipeline THEN Raises("add_export_task")
       ELSE AppendNew("add_export_task", "ExportDataTask", {})

\* PipelineBuilder.add_upload_task: depends on the last export task, if any.
AddUploadTask ==
    /\ pc = "idle"
    /\ IF NoPipeline THEN Raises("add_upload_task")
       ELSE AppendNew("add_upload_task", "UploadToADLSTask",
                      LastOfKind("ExportDataTask"))

\* PipelineBuilder.add_databricks_task: depends on the last upload task, if any.
AddDatabricksTask ==
    /\ pc = "idle"
    /\ IF NoPipeline THEN Raises("add_databricks_task")
       ELSE AppendNew("add_databricks_task", "DatabricksJobTask",
                      LastOfKind("UploadToADLSTask"))

\* Dependency sets tried for a task made by caller code: none, or one task
\* made before it: the task made last (which is in the builder's pipeline,
\* or in the one create_pipeline() has replaced), and for the first task
\* made the task that is in no pipeline.
CustomDeps == {{}, {NextObject - 1}}

\* PipelineBuilder.add_custom_task
AddCustomTask ==
    /\ pc = "idle"
    /\ IF NoPipeline THEN Raises("add_custom_task")
       ELSE \E dp \in CustomDeps : AppendNew("add_custom_task", "Task", dp)

\* Pipeline.add_hook: a hook for an event that is no key of _hooks is dropped.
AddHook(hs, e, h) ==
    IF e \in DOMAIN hs THEN [hs EXCEPT ![e] = Append(@, h)] ELSE hs

\* Events and hooks tried with with_hook.
BuilderEvents == {"after_task", "on_error"}
BuilderHooks == {"writes"}

\* PipelineBuilder.with_hook
WithHook ==
    /\ pc = "idle"
    /\ IF NoPipeline THEN Raises("with_hook")
       ELSE /\ Work < MaxWork
            /\ \E e \in BuilderEvents, h \in BuilderHooks :
                  hooks' = AddHook(hooks, e, h)
            /\ bcall' = BuilderCall("with_hook", FALSE, 0)
            /\ UNCHANGED <<tasks, name, deps, status, result, results, context,
                           run, blocked, held, kind, returned, det, creates>>

\* PipelineBuilder.build: returns self._pipeline, which the builder keeps.
BuildReturnsNone ==
    /\ pc = "idle"
    /\ returned' = IF NoPipeline THEN returned ELSE "held"
    /\ det' = IF NoPipeline THEN det ELSE <<>>
    /\ bcall' = BuilderCall("build", FALSE, 0)
    /\ UNCHANGED <<config, status, result, results, context, run, blocked,
                   held, kind, creates>>

Build ==
    /\ pc = "idle"
    /\ IF NoPipeline THEN Raises("build")
       ELSE /\ returned' = "held"
            /\ det' = <<>>
            /\ bcall' = BuilderCall("build", FALSE, 0)
            /\ UNCHANGED <<config, status, result, results, context, run,
                           blocked, held, kind, creates>>

\* PipelineBuilder.__init__: the builder holds no pipeline, no task exists
\* but object 0.
InitBuilder ==
    /\ tasks = <<>>
    /\ name = [t \in 1..0 |-> t]
    /\ deps = [t \in 0..0 |-> {}]
    /\ status = [t \in 0..0 |-> PENDING]
    /\ result = [t \in 0..0 |-> <<>>]
    /\ kind = [t \in 0..0 |-> "Task"]
    /\ hooks = [e \in Events |-> <<>>]
    /\ results = Empty
    /\ context = Empty
    /\ pc = "idle"
    /\ i = 0
    /\ exc = FALSE
    /\ calls = 0
    /\ log = <<>>
    /\ ctx0 = Empty
    /\ res0 = Empty
    /\ ret = "none"
    /\ vcall = <<>>
    /\ blocked = {}
    /\ held = FALSE
    /\ returned = "none"
    /\ det = <<>>
    /\ bcall = <<>>
    /\ creates = 0

\* The caller runs execute() on the pipeline build() gave it.
Execute ==
    /\ returned = "held"
    /\ pc = "idle" => Work < MaxWork
    /\ Next

NextBuilder ==
    \/ CreatePipeline
    \/ AddExportTask
    \/ AddUploadTask
    \/ AddDatabricksTask
    \/ AddCustomTask
    \/ WithHook
    \/ Build
    \/ Execute

\* Builder calls, and execute() calls on the pipeline build() returned.
SpecBuilder == InitBuilder /\ [][NextBuilder]_vars

(***************************************************************************)
(* Reading the history of an execute() call.                               *)
(***************************************************************************)
LogIdx == 1..Len(log)

\* execute() has been called and has returned or raised.
Ended == pc = "idle" /\ ret # "none"

\* Positions whose task returned status st in this call.
ReturnedWith(st) ==
    {log[n].pos : n \in {m \in LogIdx : log[m].ev = "return" /\ log[m].res.status = st}}

\* Positions skipped for unsatisfied dependencies in this call.
SkippedAt == {log[n].pos : n \in {m \in LogIdx : log[m].ev = "skip"}}

\* Positions whose task's execute was called in this call.
CalledAt == {log[n].pos : n \in {m \in LogIdx : log[m].ev = "call"}}

\* Positions whose task's execute raised in this call.
RaisedAt == {log[n].pos : n \in {m \in LogIdx : log[m].ev = "raise"}}

\* Positions for which a result was recorded in this call.
RecordedAt == SkippedAt \cup {log[n].pos : n \in {m \in LogIdx : log[m].ev = "return"}}

NamesAt(ps) == {name[tasks[p]] : p \in ps}

\* Log indices of the _execute_hooks calls for an event.
Fired(event) == {n \in LogIdx : log[n].ev = "fire" /\ log[n].event = event}

\* Some hook is registered.
HasHooks == \E e \in Events : Len(hooks[e]) > 0

NamesDistinct ==
    \A p, q \in 1..Len(tasks) : p # q => name[tasks[p]] # name[tasks[q]]

(***************************************************************************)
(* C1                                                                      *)
(***************************************************************************)
\* C1 as stated (on pipelines whose task names are distinct): if the task
\* at position k returned FAILED then, when execute() has returned, results
\* has an entry for every task at positions up to k and none for any task at
\* a later position.
C1_AsStated ==
    (Ended /\ NamesDistinct) =>
      \A k \in ReturnedWith(FAILED) :
        /\ \A p \in 1..k : name[tasks[p]] \in DOMAIN results
        /\ \A p \in (k + 1)..Len(tasks) : name[tasks[p]] \notin DOMAIN results

\* C1 amended: if the task at position k returned FAILED then, when execute()
\* has returned, a result was recorded in this call for exactly the tasks at
\* positions up to k, no later task was processed, and the keys of results
\* are the keys it had when the call began plus the names of those tasks.
C1_FailedStopsLoop ==
    Ended =>
      \A k \in ReturnedWith(FAILED) :
        /\ RecordedAt = 1..k
        /\ CalledAt \subseteq 1..k
        /\ DOMAIN results = DOMAIN res0 \cup NamesAt(1..k)
        /\ (calls = 1 /\ NamesDistinct) =>
              /\ \A p \in 1..k : name[tasks[p]] \in DOMAIN results
              /\ \A p \in (k + 1)..Len(tasks) : name[tasks[p]] \notin DOMAIN results

\* A first call on three tasks with distinct names stopped at the second.
C1_Witness ==
    /\ Ended /\ calls = 1 /\ NamesDistinct /\ Len(tasks) = 3
    /\ 2 \in ReturnedWith(FAILED)
    /\ DOMAIN results = {1, 2}

(***************************************************************************)
(* C2                                                                      *)
(***************************************************************************)
\* The step taken at a task whose can_execute() is false.
C2_SkipStep ==
    (pc = "loop" /\ i <= Len(tasks) /\ ~CanExecute(tasks[i])) =>
       /\ result'[tasks[i]] = << [status |-> SKIPPED, output |-> Empty,
                                  error |-> "Dependencies not satisfied"] >>
       /\ results'[name[tasks[i]]] = result'[tasks[i]][1]
       /\ log' = Append(log, [ev |-> "skip", pos |-> i])
       /\ status' = status

\* No execute call and no hook call for a position skipped in this call.
C2_NoHooksForSkipped ==
    \A p \in SkippedAt :
       /\ p \notin CalledAt
       /\ \A n \in LogIdx : log[n].ev \in {"fire", "hook"} => log[n].pos # p

\* C2: when the loop reaches a task whose can_execute() is false, the step
\* records a result with status SKIPPED and error "Dependencies not
\* satisfied" for it, calls neither its execute nor any hook, and (as a
\* state property) no before_task or after_task hook is ever fired for a
\* position that was skipped in this call.
C2_DependencySkip == [][C2_SkipStep]_vars /\ []C2_NoHooksForSkipped

\* A task was skipped in a pipeline that has hooks registered, after a task
\* for which the hooks did fire.
C2_Witness ==
    /\ Len(hooks["before_task"]) > 0 /\ Len(hooks["after_task"]) > 0
    /\ 2 \in SkippedAt /\ 1 \in CalledAt
    /\ results[name[tasks[2]]].error = "Dependencies not satisfied"

(***************************************************************************)
(* C3                                                                      *)
(***************************************************************************)
\* A task whose dependencies are satisfied in the current state.
Runnable(p) == CanExecute(tasks[p])

\* C3 as stated: after a dependency skip, every later task whose own
\* dependencies are satisfied is still executed.
C3_AsStated ==
    Ended =>
      \A p \in SkippedAt :
        \A q \in (p + 1)..Len(tasks) : Runnable(q) => q \in CalledAt

\* Positions at which the loop ended early in this call.
StoppedAt == ReturnedWith(FAILED) \cup RaisedAt

\* The step that records SKIPPED moves on to the next position.
C3_SkipStepContinues ==
    (pc = "loop" /\ i <= Len(tasks) /\ ~CanExecute(tasks[i])) =>
       (pc' = "loop" /\ i' = i + 1 /\ exc' = FALSE)

\* Every task after a skipped one was reached unless the loop ended early.
C3_LaterTasksReached ==
    Ended =>
      \A p \in SkippedAt :
        \A q \in (p + 1)..Len(tasks) :
          \/ q \in CalledAt \cup SkippedAt
          \/ \E s \in StoppedAt : p < s /\ s < q

\* C3 amended: a dependency skip does not halt the pipeline: the step that
\* records SKIPPED moves on to the next position, and when execute() ends
\* every task after a skipped one has been reached (executed, or skipped for
\* its own dependencies) unless a task in between returned FAILED or raised.
C3_SkipDoesNotHalt == [][C3_SkipStepContinues]_vars /\ []C3_LaterTasksReached

\* The spec's scenario: D depends on a task that was never added, F has no
\* dependencies: D is SKIPPED and F is SUCCESS.
C3_Witness ==
    /\ Ended /\ calls = 1 /\ Len(tasks) = 2 /\ NamesDistinct
    /\ deps[tasks[1]] = {0} /\ deps[tasks[2]] = {}
    /\ DOMAIN results = {name[tasks[1]], name[tasks[2]]}
    /\ results[name[tasks[1]]] = SkippedResult
    /\ results[name[tasks[2]]].status = SUCCESS

(***************************************************************************)
(* C4                                                                      *)
(***************************************************************************)
RECURSIVE SuccessOutputs(_)
\* The outputs of the tasks that returned SUCCESS, in execution order.
SuccessOutputs(lg) ==
    IF lg = <<>> THEN <<>>
    ELSE LET e == Head(lg) IN
         (IF e.ev = "return" /\ e.res.status = SUCCESS THEN <<e.res.output>> ELSE <<>>)
         \o SuccessOutputs(Tail(lg))

RECURSIVE AllWrites(_)
\* The same, together with what hooks and tasks wrote to the context themselves.
AllWrites(lg) ==
    IF lg = <<>> THEN <<>>
    ELSE LET e == Head(lg) IN
         (IF e.ev = "hook" /\ e.wrote THEN <<HookWrite>>
          ELSE IF e.ev = "return"
               THEN (IF e.writes THEN <<TaskWrite(tasks[e.pos])>> ELSE <<>>)
                    \o (IF e.res.status = SUCCESS THEN <<e.res.output>> ELSE <<>>)
          ELSE <<>>)
         \o AllWrites(Tail(lg))

\* Some hook or task wrote to the context itself in this call.
DirectWrite ==
    \E n \in LogIdx : \/ log[n].ev = "hook" /\ log[n].wrote
                      \/ log[n].ev = "return" /\ log[n].writes

\* The mapping in which every key has the value of the last mapping of ws
\* that holds it, and otherwise its value in c0.
LastWins(c0, ws) ==
    LET has(k) == {n \in 1..Len(ws) : k \in DOMAIN ws[n]}
        last(k) == CHOOSE n \in has(k) : \A m \in has(k) : m <= n
    IN [k \in DOMAIN c0 \cup UNION {DOMAIN ws[n] : n \in 1..Len(ws)} |->
          IF has(k) = {} THEN c0[k] ELSE ws[last(k)][k]]

\* C4 as stated: context is the left-to-right merge of the outputs of
\* exactly the tasks that returned SUCCESS.
C4_AsStated ==
    (calls > 0 /\ pc \in {"loop", "finally", "idle"}) =>
        context = LastWins(Empty, SuccessOutputs(log))

\* C4 amended: context is the context the call began with, overlaid in
\* execution order with the outputs of the tasks that returned SUCCESS (a
\* later task's key overwrites an earlier one's) and with what hooks and
\* tasks wrote to it directly; when the call began with an empty context and
\* nothing wrote to it directly it is exactly the merge of the SUCCESS
\* outputs.
C4_ContextIsMerge ==
    (calls > 0 /\ pc \in {"loop", "finally", "idle"}) =>
        /\ context = LastWins(ctx0, AllWrites(log))
        /\ (ctx0 = Empty /\ ~DirectWrite) =>
               context = LastWins(Empty, SuccessOutputs(log))

\* Task 1 succeeded with x and y, task 2 succeeded with x: x was
\* overwritten, y kept.
C4_Witness ==
    /\ Ended /\ calls = 1 /\ ~DirectWrite
    /\ {1, 2} \subseteq ReturnedWith(SUCCESS)
    /\ DOMAIN context = {"x", "y"}
    /\ context["x"] = 2 /\ context["y"] = 1

(***************************************************************************)
(* C5                                                                      *)
(***************************************************************************)
\* Log indices of the events the step adds to the log.
NewIdx ==
    IF log' = log THEN {}
    ELSE IF pc = "idle" THEN 1..Len(log')
    ELSE (Len(log) + 1)..Len(log')

\* What a hook or the task's execute wrote to the context itself in the step.
DirectWritesOfStep ==
    (IF \E n \in NewIdx : log'[n].ev = "return" /\ log'[n].writes
     THEN <<TaskWrite(tasks[i])>> ELSE <<>>)
    \o (IF \E n \in NewIdx : log'[n].ev = "hook" /\ log'[n].wrote
        THEN <<HookWrite>> ELSE <<>>)

\* The step records a task's SUCCESS and its context is the old one with
\* that task's output merged in.
SuccessMergeStep ==
    /\ pc = "exec"
    /\ status'[tasks[i]] = SUCCESS
    /\ context' = LastWins(context, <<result'[tasks[i]][1].output>>)

\* C5 as stated: every change of context is the merge of the output of a
\* task that returned SUCCESS.
C5_AsStated == [][context' # context => SuccessMergeStep]_vars

\* How one step may change context.
C5_Step ==
    LET direct == DirectWritesOfStep IN
    /\ (direct = <<>> /\ context' # context) => SuccessMergeStep
    /\ (pc = "exec" /\ status'[tasks[i]] # SUCCESS) =>
           context' = LastWins(context, direct)
    /\ (pc # "exec") => context' = LastWins(context, direct)

\* C5 amended: apart from what a hook or a task's execute writes to the
\* context itself, context only changes by the merge of the output of a
\* task that returned SUCCESS; a FAILED or SKIPPED return (whatever its
\* output), a dependency skip, the firing of hooks and validate() leave it
\* unchanged.
C5_OnlySuccessMerges == [][C5_Step]_vars

\* A task returned FAILED with a non-empty output and the context is still
\* the empty one the call began with.
C5_Witness ==
    /\ pc = "finally" /\ calls = 1
    /\ \E n \in LogIdx : /\ log[n].ev = "return"
                         /\ log[n].res.status = FAILED
                         /\ log[n].res.output # Empty
    /\ context = Empty

(***************************************************************************)
(* C6                                                                      *)
(***************************************************************************)
AP == "after_pipeline"

\* Log indices of the calls of hook j of an event.
HookCalls(event, j) ==
    {m \in LogIdx : log[m].ev = "hook" /\ log[m].event = event /\ log[m].hook = j}

\* C6: the after_pipeline hooks have not fired while the task loop of an
\* execute() call is still running, and when the call has ended (by normal
\* completion, by a FAILED task or by a task's exception) they have fired
\* exactly once, every registered hook was called exactly once, nothing was
\* recorded after they fired and the results they were given is the final
\* results.
C6_AfterPipelineOnce ==
    /\ pc \in {"loop", "exec", "finally"} => Fired(AP) = {}
    /\ Ended =>
         /\ Cardinality(Fired(AP)) = 1
         /\ \A j \in 1..Len(hooks[AP]) : Cardinality(HookCalls(AP, j)) = 1
         /\ \A n \in Fired(AP) :
              /\ log[n].seen.results = results
              /\ \A m \in LogIdx :
                    m > n => (log[m].ev = "hook" /\ log[m].event = AP)

\* The call ended early on a FAILED task and the two after_pipeline hooks
\* were called.
C6_Witness ==
    /\ Ended /\ ret = "returned" /\ Len(tasks) = 3
    /\ 2 \in ReturnedWith(FAILED)
    /\ Len(hooks[AP]) = 2
    /\ HookCalls(AP, 1) # {} /\ HookCalls(AP, 2) # {}

(***************************************************************************)
(* C7                                                                      *)
(***************************************************************************)
\* C7 as stated: when a task's execute raised, the after_pipeline hooks did
\* not fire for that execute() call.
C7_AsStated ==
    (Ended /\ RaisedAt # {}) => Fired(AP) = {}

\* C7 amended: when a task's execute raised, the after_pipeline hooks still
\* fire, once, after the exception was raised and before it leaves
\* execute(): the loop is wrapped in try/finally.
C7_HooksFireOnRaise ==
    (Ended /\ RaisedAt # {}) =>
        /\ ret = "raised"
        /\ Cardinality(Fired(AP)) = 1
        /\ \A j \in 1..Len(hooks[AP]) : HookCalls(AP, j) # {}
        /\ \A n \in Fired(AP) : \A m \in LogIdx : log[m].ev = "raise" => m < n

\* The first task raised and an after_pipeline hook was called all the same.
C7_Witness ==
    /\ Ended /\ ret = "raised" /\ 1 \in RaisedAt
    /\ Len(hooks[AP]) > 0
    /\ \E m \in LogIdx : log[m].ev = "hook" /\ log[m].event = AP

(***************************************************************************)
(* C8                                                                      *)
(***************************************************************************)
\* The result recorded in this call for position q.
RecordOf(q) ==
    IF q \in SkippedAt
    THEN [status |-> SKIPPED, output |-> Empty, error |-> "Dependencies not satisfied"]
    ELSE LET n == CHOOSE m \in LogIdx : log[m].ev = "return" /\ log[m].pos = q
         IN log[n].res

\* results is what it was when the call began, overwritten by the results
\* recorded for the positions ps, in that order.
ResultsAre(ps) ==
    /\ DOMAIN results = DOMAIN res0 \cup NamesAt(ps)
    /\ \A nm \in DOMAIN results :
         LET same == {q \in ps : name[tasks[q]] = nm} IN
         results[nm] = IF same = {} THEN res0[nm]
                       ELSE RecordOf(CHOOSE q \in same : \A r \in same : r <= q)

\* C8: when the execute of the task at position p raised, the execute() call
\* ended by propagating the exception, nothing was recorded for position p
\* or any later one, no later task was called, and results holds the
\* results recorded for the earlier positions (over what it held when the
\* call began).
C8_RaiseAborts ==
    Ended =>
      \A p \in RaisedAt :
        /\ ret = "raised"
        /\ RecordedAt = 1..(p - 1)
        /\ CalledAt \subseteq 1..p
        /\ ResultsAre(1..(p - 1))
        /\ status[tasks[p]] = RUNNING

\* The second of three tasks raised on a first call: results holds the
\* first task's entry only.
C8_Witness ==
    /\ Ended /\ calls = 1 /\ Len(tasks) = 3 /\ NamesDistinct
    /\ 2 \in RaisedAt
    /\ DOMAIN results = {name[tasks[1]]}

(***************************************************************************)
(* C9                                                                      *)
(***************************************************************************)
\* Every _execute_hooks call in the log is followed by a call of each hook
\* registered for its event, in registration order.
AllHooksCalled ==
    \A n \in LogIdx :
      log[n].ev = "fire" =>
        LET hs == hooks[log[n].event] IN
        /\ n + Len(hs) <= Len(log)
        /\ \A j \in 1..Len(hs) :
             /\ log[n + j].ev = "hook"
             /\ log[n + j].event = log[n].event
             /\ log[n + j].pos = log[n].pos
             /\ log[n + j].hook = j
             /\ log[n + j].raised = (hs[j] = "raises")

\* C9: a hook that raises stops neither the remaining hooks of its event nor
\* the pipeline: every fired event calls all its registered hooks, execute()
\* raises only if a task's execute raised, the loop processes every task
\* unless a task returned FAILED or raised, and results is exactly what the
\* tasks' results make it.
C9_HookFailureIsolated ==
    /\ AllHooksCalled
    /\ Ended =>
         /\ (ret = "raised") <=> (RaisedAt # {})
         /\ StoppedAt = {} => RecordedAt = 1..Len(tasks)
         /\ ResultsAre(RecordedAt)

\* An after_task hook raised for each of three tasks, the hook registered
\* after it was called each time (it wrote the context), and execute()
\* returned with three entries.
C9_Witness ==
    /\ Ended /\ ret = "returned" /\ calls = 1 /\ Len(tasks) = 3 /\ NamesDistinct
    /\ hooks["after_task"] = <<"raises", "writes">>
    /\ \A p \in 1..3 :
          \E n \in LogIdx : /\ log[n].ev = "hook" /\ log[n].event = "after_task"
                            /\ log[n].pos = p /\ log[n].raised
                            /\ log[n + 1].ev = "hook" /\ log[n + 1].hook = 2
    /\ "h" \in DOMAIN context
    /\ DOMAIN results = {1, 2, 3}

(***************************************************************************)
(* C10                                                                     *)
(***************************************************************************)
Terminal == {SUCCESS, FAILED, SKIPPED}

\* PENDING, then RUNNING, then a terminal status.
Rank(st) == IF st = PENDING THEN 0 ELSE IF st = RUNNING THEN 1 ELSE 2

\* C10 as stated: over any sequence of pipeline operations a task's status
\* never moves back.
C10_AsStated ==
    [][\A t \in DOMAIN status : Rank(status'[t]) >= Rank(status[t])]_vars

\* How one step may change the status of a task.
C10_Step ==
    \A t \in DOMAIN status :
      /\ calls' = 1 => Rank(status'[t]) >= Rank(status[t])
      /\ status'[t] = PENDING => status[t] = PENDING
      /\ status'[t] # status[t] =>
            \/ pc = "loop" /\ t = tasks[i] /\ status'[t] = RUNNING
            \/ pc = "exec" /\ t = tasks[i] /\ status[t] = RUNNING
                           /\ status'[t] \in Terminal

\* C10 amended: during the first execute() call of a pipeline a task's
\* status never moves back; in every call a status changes only to RUNNING
\* (when the task's execute is about to be called) or from RUNNING to the
\* terminal status the task returned, and never back to PENDING.  A later
\* execute() call that executes a task again moves it from its terminal
\* status back to RUNNING.
C10_ForwardInFirstCall == [][C10_Step]_vars

\* A task that an earlier call left SUCCESS is RUNNING again in the second.
C10_Witness ==
    /\ calls = 2 /\ pc = "exec"
    /\ status[tasks[i]] = RUNNING
    /\ result[tasks[i]] # <<>>
    /\ result[tasks[i]][1].status = SUCCESS

(***************************************************************************)
(* C11                                                                     *)
(***************************************************************************)
\* The dependencies of task t that do not have status SUCCESS.
Unmet(t) == {d \in deps[t] : status[d] \in {PENDING, RUNNING, FAILED, SKIPPED}}

\* What the loop of execute() does with the answer of can_execute().
C11_Step ==
    (pc = "loop" /\ i <= Len(tasks)) =>
       LET t == tasks[i] IN
       /\ (pc' = "exec") <=> (Unmet(t) = {})
       /\ deps[t] = {} => pc' = "exec"
       /\ Unmet(t) # {} => /\ pc' = "loop"
                           /\ result'[t] = <<SkippedResult>>
                           /\ status'[t] = status[t]

\* C11: can_execute() of a task is true if and only if every dependency
\* registered on it has status SUCCESS: when the loop of execute() reaches a
\* task it calls the task's execute exactly when none of its dependencies is
\* PENDING, RUNNING, FAILED or SKIPPED (always, for a task with no
\* dependencies), and records it SKIPPED otherwise; every status is one of
\* the five of TaskStatus.
C11_CanExecute ==
    [][C11_Step]_vars /\ [](\A t \in DOMAIN status : status[t] \in TaskStatus)

\* The third task depends on the first two; the first is SUCCESS, the second
\* returned SKIPPED, and the third was skipped.
C11_Witness ==
    /\ Len(tasks) = 3 /\ deps[tasks[3]] = {tasks[1], tasks[2]}
    /\ status[tasks[1]] = SUCCESS /\ status[tasks[2]] = SKIPPED
    /\ 3 \in SkippedAt /\ 3 \notin CalledAt

C12_StatusStep ==
    \A d \in DOMAIN status :
      (status[d] \in {FAILED, SKIPPED} /\ status'[d] # status[d]) =>
         /\ pc = "loop" /\ i <= Len(tasks) /\ tasks[i] = d
         /\ Unmet(d) = {}
         /\ status'[d] = RUNNING
         /\ calls > 1

\* A task that has been blocked can execute only in a further execute() call.
C12_BlockedInCall ==
    \A t \in blocked :
      (CanExecute(t) \/ (pc = "exec" /\ tasks[i] = t)) => calls > 1

RecordedInCall(k) == pc # "idle" /\ k \in NamesAt(RecordedAt)

\* C13 as stated: an entry recorded in an execute() call is neither removed
\* nor replaced for the rest of that call.
C13_AsStated ==
    [][\A k \in DOMAIN results :
          RecordedInCall(k) => (k \in DOMAIN results' /\ results'[k] = results[k])]_vars

\* How one step may change results.
C13_Step ==
    /\ \A k \in DOMAIN results :
          /\ k \in DOMAIN results'
          /\ results'[k] # results[k] =>
                /\ pc \in {"loop", "exec"}
                /\ k = name[tasks[i]]
                /\ result'[tasks[i]] = <<results'[k]>>
          /\ (RecordedInCall(k) /\ NamesDistinct) => results'[k] = results[k]
    /\ \A k \in DOMAIN results' :
          k \notin DOMAIN results => (pc \in {"loop", "exec"} /\ k = name[tasks[i]])
    /\ (pc = "exec" /\ pc' = "finally") =>
          \A k \in DOMAIN results : k # name[tasks[i]] => results'[k] = results[k]

\* C13 amended: during one execute() call no entry is removed from results,
\* and an entry is replaced only by the result of a task of the same name
\* that is processed later; between tasks of different names results is
\* append-only, and a task that fails or raises changes no entry but the one
\* under its own name.
C13_AppendOnly == [][C13_Step]_vars

\* The second of three tasks returned FAILED; the entry of the first is the
\* result it returned.
C13_Witness ==
    /\ Ended /\ calls = 1 /\ Len(tasks) = 3 /\ NamesDistinct
    /\ 2 \in ReturnedWith(FAILED) /\ 1 \in ReturnedWith(SUCCESS)
    /\ DOMAIN results = {name[tasks[1]], name[tasks[2]]}
    /\ results[name[tasks[1]]] = RecordOf(1)
    /\ results[name[tasks[1]]].output # Empty

(***************************************************************************)
(* C14                                                                     *)
(***************************************************************************)
\* The tasks of the pipeline that execute() has processed at least once:
\* their result is set (by a return of their execute or by a skip).
Processed == {tasks[p] : p \in {q \in 1..Len(tasks) : result[tasks[q]] # <<>>}}

C15_FailFast ==
    vcall # <<>> =>
      LET v == vcall[1] IN
      /\ DOMAIN v.valid = 1..Len(tasks)
      /\ (v.ret = FALSE) <=> (\E p \in 1..Len(tasks) : ~v.valid[p])
      /\ \A p \in 1..(v.called - 1) : v.valid[p]
      /\ v.ret = FALSE => (v.called \in 1..Len(tasks) /\ ~v.valid[v.called])
      /\ v.ret = TRUE => v.called = Len(tasks)

\* [G valid, H invalid, I valid]: validate() returned false after calling
\* the validate() of G and H only.
C15_Witness ==
    /\ Len(tasks) = 3 /\ vcall # <<>>
    /\ vcall[1].valid = <<TRUE, FALSE, TRUE>>
    /\ vcall[1].ret = FALSE /\ vcall[1].called = 2

(***************************************************************************)
(* C16                                                                     *)
(***************************************************************************)
\* The step is a validate() call.
ValidateStep == vcall' # vcall /\ vcall' # <<>>

\* C16: a validate() call, whether it returns true or false, fires no hook
\* (the log of _execute_hooks calls is unchanged) and leaves the task list,
\* the hook registry, every task's name, dependencies, status and result,
\* results and context unchanged.
C16_ValidateIsPure ==
    [][ValidateStep =>
         /\ UNCHANGED <<tasks, hooks, name, deps, status, result>>
         /\ UNCHANGED <<results, context, log, pc, calls>>]_vars

\* validate() returned false on a pipeline with hooks that execute() had
\* run before: results and context are not empty and nothing was reset.
C16_Witness ==
    /\ vcall # <<>> /\ vcall[1].ret = FALSE
    /\ calls = 1 /\ Ended /\ HasHooks
    /\ results # Empty /\ context # Empty
    /\ \E t \in DOMAIN status : status[t] = SUCCESS

(***************************************************************************)
(* C17                                                                     *)
(***************************************************************************)
\* The step is a builder call op that did not raise.
Called(op) == bcall' # bcall /\ bcall'[1].op = op /\ ~bcall'[1].raised

\* The step op appended a new task of class k whose dependencies are the
\* task of class pred at the greatest position of the pipeline, or none if
\* the pipeline has no task of class pred.
C17_Wired(op, k, pred) ==
    Called(op) =>
      LET u == bcall'[1].task
          ps == {p \in 1..Len(tasks) : kind[tasks[p]] = pred}
      IN /\ u \notin DOMAIN kind
         /\ tasks' = Append(tasks, u)
         /\ kind'[u] = k
         /\ ps = {} => deps'[u] = {}
         /\ ps # {} => \E p \in ps : /\ deps'[u] = {tasks[p]}
                                     /\ \A q \in ps : q <= p

\* C17: add_upload_task() appends a new upload task that depends on the
\* export task added last to the builder's pipeline, add_databricks_task()
\* a new remote-job task that depends on the upload task added last, and
\* each gives the task no dependency when the pipeline holds no task of the
\* predecessor class; add_export_task() appends a task with no dependency.
C17_AutoWiring ==
    [][/\ C17_Wired("add_upload_task", "UploadToADLSTask", "ExportDataTask")
       /\ C17_Wired("add_databricks_task", "DatabricksJobTask", "UploadToADLSTask")
       /\ Called("add_export_task") => deps'[bcall'[1].task] = {}]_vars

\* Two export tasks, then an upload task: it depends on the second export
\* task only.
C17_Witness ==
    /\ Len(tasks) = 3
    /\ kind[tasks[1]] = "ExportDataTask" /\ kind[tasks[2]] = "ExportDataTask"
    /\ kind[tasks[3]] = "UploadToADLSTask"
    /\ deps[tasks[3]] = {tasks[2]}

(***************************************************************************)
(* C18                                                                     *)
(***************************************************************************)
\* A builder call made while the builder holds no pipeline, other than
\* create_pipeline, raises and changes nothing.
C18_Step ==
    (~held /\ bcall' # bcall /\ bcall'[1].op # "create_pipeline") =>
       /\ bcall'[1].raised
       /\ ~held'
       /\ returned' = "none"
       /\ UNCHANGED <<tasks, hooks, name, deps, status, result, kind>>
       /\ UNCHANGED <<results, context, det, creates>>

\* Before create_pipeline() every builder step can be called, the last call
\* raised, and nothing has been built or returned.
C18_NoPipeline ==
    ~held =>
       /\ ENABLED Build /\ ENABLED AddExportTask /\ ENABLED AddUploadTask
       /\ ENABLED AddDatabricksTask /\ ENABLED AddCustomTask /\ ENABLED WithHook
       /\ bcall # <<>> => bcall[1].raised
       /\ returned = "none" /\ creates = 0 /\ tasks = <<>>

\* C18: build() and every builder step (add_export_task, add_upload_task,
\* add_databricks_task, add_custom_task, with_hook) called before any
\* create_pipeline() raises, and the builder still holds no pipeline and has
\* made no task afterwards; no builder call raises once create_pipeline()
\* was called.
C18_MisuseRaises ==
    /\ [][C18_Step]_vars
    /\ []C18_NoPipeline
    /\ [](held => (bcall # <<>> /\ ~bcall[1].raised))

\* build() was called on a new builder and raised.
C18_Witness ==
    /\ ~held /\ bcall # <<>>
    /\ bcall[1].op = "build" /\ bcall[1].raised
    /\ returned = "none"

(***************************************************************************)
(* C19                                                                     *)
(***************************************************************************)
\* The task list and the hook registry of the pipeline build() returned.
ReturnedStructure ==
    IF returned = "held" THEN <<tasks, hooks>>
    ELSE IF returned = "detached" THEN <<det[1].tasks, det[1].hooks>>
    ELSE <<>>

\* C19: once build() has returned a pipeline, no later call on the builder
\* other than build() itself (add_export_task, add_upload_task,
\* add_databricks_task, add_custom_task, with_hook, create_pipeline) changes
\* the task list or the hook registry of that pipeline.
C19_ImmutableAfterBuild ==
    [][(returned # "none" /\ bcall' # bcall /\ bcall'[1].op # "build") =>
           ReturnedStructure' = ReturnedStructure]_vars

(***************************************************************************)
(* C20                                                                     *)
(***************************************************************************)
\* What a create_pipeline() call leaves.
C20_CreateStep ==
    creates' # creates =>
       /\ held'
       /\ tasks' = <<>>
       /\ \A e \in Events : hooks'[e] = <<>>
       /\ DOMAIN hooks' = Events
       /\ context' = Empty
       /\ results' = Empty
       /\ UNCHANGED <<name, deps, status, result, kind>>

\* Every dependency wired by the builder is a task at an earlier position of
\* the same pipeline.
C20_WiredInside ==
    \A p \in 1..Len(tasks) :
       kind[tasks[p]] \in BuiltinKinds =>
          deps[tasks[p]] \subseteq {tasks[q] : q \in 1..(p - 1)}

\* C20: create_pipeline() makes the builder hold a fresh pipeline with no
\* task, no hook, an empty context and empty results, whatever it held
\* before; and every dependency the builder wires is a task of the pipeline
\* it holds, never one added before the last create_pipeline().
C20_FreshPipeline == [][C20_CreateStep]_vars /\ []C20_WiredInside

\* An export task was added and executed, create_pipeline() was called
\* again, and the upload task added then has no dependency; results and
\* context are empty again.
C20_Witness ==
    /\ creates = 2 /\ Len(tasks) = 1
    /\ kind[tasks[1]] = "UploadToADLSTask" /\ deps[tasks[1]] = {}
    /\ \E t \in DOMAIN kind : /\ kind[t] = "ExportDataTask"
                              /\ result[t] # <<>>
                              /\ result[t][1].status = SUCCESS
    /\ results = Empty /\ context = Empty

(***************************************************************************)
(* C21                                                                     *)
(***************************************************************************)
\* Log indices at which the loop of execute() took up a task: it called the
\* task's execute or skipped it.
TakenUp == {n \in LogIdx : log[n].ev \in {"call", "skip"}}

\* C21: within one execute() call the tasks are taken up in insertion order
\* and each position once: the positions of the calls and skips in the log
\* increase strictly, so no task's execute is called twice and a task that
\* returned FAILED or was skipped is not taken up again; every call is
\* followed by at most one return or raise of that task; and the position
\* of the loop never moves back during the call.
C21_NoRerun ==
    /\ [](\A m, n \in TakenUp : m < n => log[m].pos < log[n].pos)
    /\ [](\A p \in CalledAt :
            Cardinality({n \in LogIdx : log[n].ev \in {"return", "raise"}
                                        /\ log[n].pos = p}) <= 1)
    /\ [](\A p \in ReturnedWith(FAILED) \cup SkippedAt :
            Cardinality({n \in TakenUp : log[n].pos = p}) = 1)
    /\ [][pc # "idle" => i' >= i]_vars

\* Three tasks were taken up in one call: the first was skipped, the second
\* returned SUCCESS, the third returned FAILED.
C21_Witness ==
    /\ Ended /\ Len(tasks) = 3
    /\ 1 \in SkippedAt /\ 2 \in ReturnedWith(SUCCESS) /\ 3 \in ReturnedWith(FAILED)
    /\ Cardinality(TakenUp) = 3

(***************************************************************************)
(* C22                                                                     *)
(***************************************************************************)
\* The tasks that task t depends on, directly or through other tasks
\* (MaxTasks + 1 rounds reach every task of the pipeline).
RECURSIVE DependsOn(_, _)
DependsOn(ts, n) ==
    IF n = 0 THEN ts
    ELSE DependsOn(ts \cup UNION {deps[d] : d \in ts}, n - 1)

\* The tasks that are members of a dependency cycle.
InCycle == {t \in DOMAIN deps : t \in DependsOn(deps[t], Cardinality(DOMAIN deps))}

\* The members of a cycle are never executable and never executed: they
\* keep status PENDING, and an execute() call that has ended without
\* stopping early has recorded each of them SKIPPED.
C22_CycleSkipped ==
    \A p \in 1..Len(tasks) :
      tasks[p] \in InCycle =>
        /\ ~CanExecute(tasks[p])
        /\ status[tasks[p]] = PENDING
        /\ p \notin CalledAt
        /\ (Ended /\ StoppedAt = {}) =>
              (p \in SkippedAt /\ result[tasks[p]] = <<SkippedResult>>)

InPipeline == {tasks[q] : q \in 1..Len(tasks)}

\* The dependencies of task t that are not in the pipeline.
Outside(t) == deps[t] \ InPipeline

ExecuteStep == pc # "idle" \/ pc' # "idle"

\* The task at position p has a dependency outside the pipeline that no
\* pipeline has run to SUCCESS.
OutsideUnmet(p) == \E d \in Outside(tasks[p]) : status[d] # SUCCESS

Named(nm) == {p \in 1..Len(tasks) : name[tasks[p]] = nm}

\* The greatest position of a non-empty set of positions.
LastOf(ps) == CHOOSE q \in ps : \A r \in ps : r <= q

\* C24: tasks of one name are all in the pipeline and are processed like any
\* other task: an execute() call that ended without stopping early recorded
\* a result for every position, and each processed task holds its own
\* result.  In results they share one entry, which holds the result of the
\* one among them that the call processed last (the entry the call found
\* when none of them has been processed yet).
C24_NameCollision ==
    /\ (Ended /\ StoppedAt = {}) => RecordedAt = 1..Len(tasks)
    /\ \A p \in RecordedAt : result[tasks[p]] = <<RecordOf(p)>>
    /\ \A nm \in {name[t] : t \in InPipeline} :
         LET done == Named(nm) \cap RecordedAt IN
         /\ done # {} => (nm \in DOMAIN results /\ results[nm] = RecordOf(LastOf(done)))
         /\ (done = {} /\ pc # "idle") =>
               (nm \in DOMAIN results <=> nm \in DOMAIN res0)
         /\ (done = {} /\ pc # "idle" /\ nm \in DOMAIN res0) => results[nm] = res0[nm]

\* Two tasks of one name: the first returned SUCCESS, the second FAILED, and
\* results has the single entry of the second.
C24_Witness ==
    /\ Ended /\ Len(tasks) = 2 /\ name[tasks[1]] = name[tasks[2]]
    /\ 1 \in ReturnedWith(SUCCESS) /\ 2 \in ReturnedWith(FAILED)
    /\ result[tasks[1]][1].status = SUCCESS
    /\ DOMAIN results = {name[tasks[1]]}
    /\ results[name[tasks[1]]] = result[tasks[2]][1]

(***************************************************************************)
(* C25                                                                     *)
(***************************************************************************)
\* C25 as stated, the part on before_task hooks: they never observe the
\* task as RUNNING.
C25_AsStated == \A n \in Fired("before_task") : log[n].seen.status # RUNNING

\* Log entry n is a call of a hook of the event.
IsHook(n, event) == n \in LogIdx /\ log[n].ev = "hook" /\ log[n].event = event

\* Log entry n is the firing of the hooks of the event for position p.
IsFire(n, event, p) ==
    n \in LogIdx /\ log[n].ev = "fire" /\ log[n].event = event /\ log[n].pos = p

\* The entries before the call of execute at log index n: the before_task
\* hooks were fired for that position and every registered hook was called.
C25_BeforeCall(n) ==
    LET h == Len(hooks["before_task"]) IN
    /\ IsFire(n - h - 1, "before_task", log[n].pos)
    /\ \A k \in (n - h)..(n - 1) : IsHook(k, "before_task")

\* The entries around the return of execute at log index n: the call is
\* right before it; right after it the after_task hooks were fired, with the
\* task's status set from the returned result, the result stored in results
\* under the task's name and, for SUCCESS, its output in the context; then
\* every registered after_task hook was called; and after a FAILED result
\* nothing follows but the after_pipeline hooks.
C25_AfterReturn(n) ==
    LET h == Len(hooks["after_task"])
        p == log[n].pos
        r == log[n].res
        nm == name[tasks[p]] IN
    /\ log[n - 1].ev = "call" /\ log[n - 1].pos = p
    /\ IsFire(n + 1, "after_task", p)
    /\ log[n + 1].seen.status = r.status
    /\ nm \in DOMAIN log[n + 1].seen.results
    /\ log[n + 1].seen.results[nm] = r
    /\ r.status = SUCCESS =>
          \A k \in DOMAIN r.output :
             /\ k \in DOMAIN log[n + 1].seen.context
             /\ log[n + 1].seen.context[k] = r.output[k]
    /\ \A k \in (n + 2)..(n + 1 + h) : IsHook(k, "after_task")
    /\ r.status = FAILED =>
          \A k \in (n + 2 + h)..Len(log) :
             IsHook(k, AP) \/ IsFire(k, AP, 0)
    /\ (r.status # FAILED /\ n + 2 + h <= Len(log)) =>
          log[n + 2 + h].ev \in {"skip", "fire"}

\* C25: the steps of an executed task occur in the order before_task hooks,
\* status RUNNING, execute, status and result from the returned TaskResult,
\* entry in results, merge on SUCCESS, after_task hooks, stop on FAILED.
\* The before_task hooks observe the task with the status it had before
\* this execution, which is PENDING in the first execute() call of the
\* pipeline; the after_task hooks observe the entry in results and the
\* merged context, and fire for a task that returned FAILED too.
C25_StepOrder ==
    /\ [](\A n \in LogIdx :
            /\ log[n].ev = "call" => C25_BeforeCall(n)
            /\ log[n].ev = "return" => C25_AfterReturn(n)
            /\ log[n].ev = "raise" =>
                  /\ log[n - 1] = [ev |-> "call", pos |-> log[n].pos]
                  /\ \A k \in (n + 1)..Len(log) : IsHook(k, AP) \/ IsFire(k, AP, 0))
    /\ [](pc = "exec" =>
            /\ status[tasks[i]] = RUNNING
            /\ log[Len(log)] = [ev |-> "call", pos |-> i])
    /\ [](\A p \in RecordedAt \ SkippedAt :
            /\ status[tasks[p]] = RecordOf(p).status
            /\ result[tasks[p]] = <<RecordOf(p)>>)
    /\ [][(pc = "loop" /\ pc' = "exec") =>
            /\ log'[Len(log) + 1] =
                  [ev |-> "fire", event |-> "before_task", pos |-> i,
                   seen |-> Seen(status[tasks[i]], results, context)]
            /\ status'[tasks[i]] = RUNNING
            /\ result' = result /\ results' = results]_vars
    /\ [](calls = 1 => \A n \in Fired("before_task") : log[n].seen.status = PENDING)

\* With hooks registered, the first task returned SUCCESS with an output and
\* the second returned FAILED: the after_task hooks were fired for both.
C25_Witness ==
    /\ Ended /\ HasHooks /\ Len(tasks) = 2
    /\ 1 \in ReturnedWith(SUCCESS) /\ RecordOf(1).output # Empty
    /\ 2 \in ReturnedWith(FAILED)
    /\ \E n \in Fired("after_task") : log[n].pos = 2
    /\ \E n \in Fired("before_task") : log[n].pos = 2

(***************************************************************************)
(* C26                                                                     *)
(***************************************************************************)
\* Every task of the pipeline was made by add_export_task, add_upload_task
\* or add_databricks_task.
AllBuiltin == \A t \in InPipeline : kind[t] \in BuiltinKinds

\* C26: in a pipeline whose tasks were all made by add_export_task,
\* add_upload_task and add_databricks_task no execute() call skips a task
\* and no SKIPPED result is recorded, in results or in a task.  Every
\* dependency is a task at a strictly earlier position of the pipeline, and
\* it returned SUCCESS in this call when the execute of the dependent was
\* called; a position the loop has reached has only positions before it
\* that returned SUCCESS in this call, so its task can execute.
C26_BuilderNeverSkips ==
    AllBuiltin =>
      /\ SkippedAt = {}
      /\ \A nm \in DOMAIN results : results[nm].status \in {SUCCESS, FAILED}
      /\ \A t \in InPipeline :
           result[t] = <<>> \/ result[t][1].status \in {SUCCESS, FAILED}
      /\ \A p \in 1..Len(tasks) : \A d \in deps[tasks[p]] :
           \E q \in 1..(p - 1) :
              /\ tasks[q] = d
              /\ p \in CalledAt => q \in ReturnedWith(SUCCESS)
      /\ (pc = "loop" /\ i <= Len(tasks)) =>
            /\ 1..(i - 1) \subseteq ReturnedWith(SUCCESS)
            /\ CanExecute(tasks[i])

\* An export, an upload and a databricks task, each wired to the one before:
\* an earlier execute() call recorded a FAILED result and stopped, and the
\* call that has now ended ran the three of them to SUCCESS.
C26_Witness ==
    /\ Ended /\ Len(tasks) = 3 /\ AllBuiltin
    /\ kind[tasks[1]] = "ExportDataTask"
    /\ deps[tasks[2]] = {tasks[1]} /\ deps[tasks[3]] = {tasks[2]}
    /\ \E nm \in DOMAIN res0 : res0[nm].status = FAILED
    /\ ReturnedWith(SUCCESS) = {1, 2, 3}

(***************************************************************************)
(* C27                                                                     *)
(***************************************************************************)
\* The step skips the task at position i for unsatisfied dependencies.
SkipStep == pc = "loop" /\ i <= Len(tasks) /\ ~CanExecute(tasks[i])

\* C27: the step that skips a task for unsatisfied dependencies sets the
\* task's result and its entry in results to the SKIPPED TaskResult and
\* changes no task's status.  In the first execute() call of the pipeline a
\* skipped task has status PENDING while its result and its entry in
\* results have status SKIPPED, also when the call has ended.
C27_SkipKeepsStatus ==
    /\ [][SkipStep =>
            /\ status' = status
            /\ result'[tasks[i]] = <<SkippedResult>>
            /\ results'[name[tasks[i]]] = SkippedResult]_vars
    /\ [](calls = 1 =>
            \A p \in SkippedAt :
               /\ status[tasks[p]] = PENDING
               /\ result[tasks[p]] = <<SkippedResult>>
               /\ result[tasks[p]][1].status = SKIPPED
               /\ status[tasks[p]] # result[tasks[p]][1].status
               /\ (\A q \in RecordedAt : q > p => name[tasks[q]] # name[tasks[p]])
                     => results[name[tasks[p]]].status = SKIPPED)

\* The first execute() call has returned: the second task, which depends on
\* a task that was never added, has status PENDING and a SKIPPED result,
\* the tasks around it returned SUCCESS.
C27_Witness ==
    /\ Ended /\ calls = 1 /\ ret = "returned" /\ Len(tasks) = 3 /\ NamesDistinct
    /\ SkippedAt = {2} /\ ReturnedWith(SUCCESS) = {1, 3}
    /\ status[tasks[2]] = PENDING
    /\ results[name[tasks[2]]].status = SKIPPED

(***************************************************************************)
(* C28                                                                     *)
(***************************************************************************)
\* The step in which execute() is called.
BeginStep == pc = "idle" /\ pc' # "idle"

\* C28: calling execute() resets nothing: the step in which it is called
\* leaves results, every task's status and result unchanged and removes no
\* key from the context.  During and after the call every entry that
\* results had when the call began is still there, unchanged unless the
\* call has recorded a result under the same name, and the context still
\* has every key it had when the call began; no step of execute() removes
\* an entry of results or a key of the context.
C28_NoReset ==
    /\ [][BeginStep =>
            /\ results' = results /\ status' = status /\ result' = result
            /\ res0' = results /\ ctx0' = context
            /\ DOMAIN context \subseteq DOMAIN context']_vars
    /\ [](calls >= 1 =>
            /\ \A nm \in DOMAIN res0 :
                 /\ nm \in DOMAIN results
                 /\ nm \notin NamesAt(RecordedAt) => results[nm] = res0[nm]
            /\ DOMAIN ctx0 \subseteq DOMAIN context)
    /\ [][/\ DOMAIN results \subseteq DOMAIN results'
          /\ DOMAIN context \subseteq DOMAIN context']_vars

\* The first execute() call recorded a result for each of three tasks and
\* merged an output; the second call stopped at the first task, which
\* returned FAILED: results still has the first call's entries of the
\* second and third task, and the context its keys.
C28_Witness ==
    /\ Ended /\ calls = 2 /\ Len(tasks) = 3 /\ NamesDistinct
    /\ DOMAIN res0 = NamesAt(1..3) /\ ctx0 # Empty
    /\ RecordedAt = {1} /\ 1 \in ReturnedWith(FAILED)
    /\ res0[name[tasks[1]]].status = SUCCESS
    /\ results[name[tasks[1]]].status = FAILED
    /\ \A p \in {2, 3} : results[name[tasks[p]]] = res0[name[tasks[p]]]
    /\ DOMAIN ctx0 \subseteq DOMAIN context

(***************************************************************************)
(* C29                                                                     *)
(***************************************************************************)
\* The positions after p whose task depends on the task at position p.
DependentsAfter(p) ==
    {q \in (p + 1)..Len(tasks) : tasks[p] \in deps[tasks[q]]}

\* C29 as stated, the part on the dependents: when the call has ended, every
\* later task that depends on a task whose execute returned SKIPPED is
\* recorded SKIPPED with the error "Dependencies not satisfied".
C29_AsStated ==
    Ended =>
      \A p \in ReturnedWith(SKIPPED) : \A q \in DependentsAfter(p) :
         /\ q \in SkippedAt
         /\ result[tasks[q]] = <<SkippedResult>>

\* The execute of the task at position i returns status SKIPPED in the step.
ReturnsSkippedStep == pc = "exec" /\ status'[tasks[i]] = SKIPPED

\* C29: when a task's own execute returns SKIPPED, the result is recorded,
\* the after_task hooks fire, the output is not merged into the context (the
\* context changes only by what the hooks write) and the loop goes on to the
\* next position.  The execute of a later task that depends on it is not
\* called in that call; the loop records such a task SKIPPED with the error
\* "Dependencies not satisfied" when it reaches it, which it does unless a
\* task in between returns FAILED or raises.
C29_ReturnedSkipped ==
    /\ [][ReturnsSkippedStep =>
            /\ pc' = "loop" /\ i' = i + 1
            /\ context' = HookContext("after_task", context)
            /\ result'[tasks[i]][1].status = SKIPPED
            /\ results'[name[tasks[i]]] = result'[tasks[i]][1]
            /\ \E n \in NewIdx : log'[n].ev = "fire" /\ log'[n].event = "after_task"
                                 /\ log'[n].pos = i /\ log'[n].seen.status = SKIPPED]_vars
    /\ [](\A p \in ReturnedWith(SKIPPED) :
            /\ status[tasks[p]] = SKIPPED
            /\ \A q \in DependentsAfter(p) :
                 /\ ~CanExecute(tasks[q])
                 /\ q \notin CalledAt
                 /\ (q \in RecordedAt \/ (Ended /\ StoppedAt = {})) =>
                       /\ q \in SkippedAt
                       /\ result[tasks[q]] = <<SkippedResult>>
                       /\ result[tasks[q]][1].error = "Dependencies not satisfied"
                 /\ (Ended /\ q \notin SkippedAt) =>
                       \E r \in StoppedAt : p < r /\ r < q)

\* With hooks registered, the first task returned SKIPPED, the second, which
\* depends on it, was skipped for unsatisfied dependencies, and the third
\* returned SUCCESS.
C29_Witness ==
    /\ Ended /\ HasHooks /\ Len(tasks) = 3
    /\ 1 \in ReturnedWith(SKIPPED) /\ RecordOf(1).output # Empty
    /\ tasks[1] \in deps[tasks[2]] /\ 2 \in SkippedAt
    /\ 3 \in ReturnedWith(SUCCESS)
    /\ \E n \in Fired("after_task") : log[n].pos = 1

(***************************************************************************)
(* C30                                                                     *)
(***************************************************************************)
\* C30 as stated, the part on a normal return: whenever execute() has
\* returned normally no task of the pipeline has status RUNNING.
C30_AsStated ==
    (Ended /\ ret = "returned") => \A t \in InPipeline : status[t] # RUNNING

\* The execute of the task at position i raises in the step.
RaiseStep == pc = "exec" /\ exc'

\* C30: a task that an execute() call has executed has status RUNNING only
\* while its execute is in progress, or after its execute raised in that
\* call; a task that is RUNNING without having been executed by the call
\* was left so by an earlier call.  So when the first execute() call of a
\* pipeline returns normally no task is RUNNING, and when any call returns
\* normally no task it executed is RUNNING.  The step in which a task's
\* execute raises changes no status, result or entry of results: after the
\* fault has propagated the task is RUNNING and its result is what it was
\* before the call, unset in the first call.
C30_RunningOnlyInProgress ==
    /\ [](\A p \in 1..Len(tasks) :
            status[tasks[p]] = RUNNING =>
               /\ p \in CalledAt => ((pc = "exec" /\ i = p) \/ p \in RaisedAt)
               /\ p \notin CalledAt => calls >= 2)
    /\ []((Ended /\ ret = "returned") =>
            /\ RaisedAt = {}
            /\ \A p \in CalledAt : status[tasks[p]] \in Terminal
            /\ calls = 1 => \A t \in InPipeline : status[t] # RUNNING)
    /\ [][RaiseStep =>
            /\ status[tasks[i]] = RUNNING
            /\ status' = status /\ result' = result /\ results' = results
            /\ context' = context]_vars
    /\ []((Ended /\ ret = "raised") =>
            /\ Cardinality(RaisedAt) = 1
            /\ \A p \in RaisedAt :
                 /\ status[tasks[p]] = RUNNING
                 /\ calls = 1 => result[tasks[p]] = <<>>)

\* The first execute() call has let the exception of the second task
\* through: the first task is SUCCESS, the second is RUNNING and has no
\* result, the third was never reached.
C30_Witness ==
    /\ Ended /\ ret = "raised" /\ calls = 1 /\ Len(tasks) = 3
    /\ 1 \in ReturnedWith(SUCCESS) /\ RaisedAt = {2}
    /\ status[tasks[1]] = SUCCESS
    /\ status[tasks[2]] = RUNNING /\ result[tasks[2]] = <<>>
    /\ status[tasks[3]] = PENDING

====
